---- MODULE Spec2Model ----
(***************************************************************************)
(* Model of app.py: the Dash callback update_dashboard (selection          *)
(* resolver + per-country aggregation) over the three tables loaded at     *)
(* import time, driven by map clicks and dropdown changes.                 *)
(*                                                                         *)
(* Conventions                                                             *)
(*   - a Python Optional is a sequence: None is <<>>, a value x is <<x>>;  *)
(*   - a str whose characters matter (the survey flags) is a sequence of   *)
(*     one-character strings, so strip() and lower() really do work;       *)
(*   - a float percentage is the exact rational [num, den] it stands for   *)
(*     (k/n*100 is kept as 100k/n);                                        *)
(*   - a DataFrame is the sequence of its rows, in file order.             *)
(***************************************************************************)
EXTENDS Integers, Sequences, FiniteSets, TLC

VARIABLES
    pc,             \* "loading" before the page's first callback, then "ready"
    merged_df,      \* summary table (app.py:14)
    health_df,      \* expenditure table (app.py:15)
    occ_data_full,  \* survey table (app.py:18)
    clickData,      \* the map's clickData property, as the browser holds it
    dropdown,       \* the dropdown's value property, as the browser holds it
    triggered,      \* dash.callback_context.triggered of the last call
    inputs,         \* the arguments (click_data, dropdown_value) of the last call
    result,         \* what the last call of update_dashboard did
    outputs,        \* the four rendered outputs on the page
    rendered        \* every (country, outputs) pair some call has returned

vars == <<pc, merged_df, health_df, occ_data_full, clickData, dropdown,
          triggered, inputs, result, outputs, rendered>>

tables == <<merged_df, health_df, occ_data_full>>

-----------------------------------------------------------------------------
(* Bounds of the model *)

MaxExpRows == 3
MaxSurveyRows == 3
MaxRespondents == 20

-----------------------------------------------------------------------------
(* Python values *)

None == <<>>
Some(x) == <<x>>

Range(s) == {s[i] : i \in DOMAIN s}

\* "Yes " and friends, character by character
Chars(w) ==
    CASE w = "Yes_"  -> <<"Y", "e", "s", " ">>
      [] w = "_YES"  -> <<" ", "Y", "E", "S">>
      [] w = "yes"   -> <<"y", "e", "s">>
      [] w = "No"    -> <<"N", "o">>
      [] w = "Maybe" -> <<"M", "a", "y", "b", "e">>
      [] w = "ye_s"  -> <<"y", "e", " ", "s">>
      [] w = "yes!"  -> <<"y", "e", "s", "!">>
      [] w = "_"     -> <<" ">>
      [] OTHER       -> <<>>

Whitespace == {" ", "\t", "\n"}

RECURSIVE LStrip(_)
LStrip(s) ==
    IF s # <<>> /\ Head(s) \in Whitespace THEN LStrip(Tail(s)) ELSE s

RECURSIVE RStrip(_)
RStrip(s) ==
    IF s # <<>> /\ s[Len(s)] \in Whitespace
    THEN RStrip(SubSeq(s, 1, Len(s) - 1)) ELSE s

\* str.strip()
Strip(s) == RStrip(LStrip(s))

LowerChar(c) ==
    CASE c = "Y" -> "y" [] c = "E" -> "e" [] c = "S" -> "s"
      [] c = "N" -> "n" [] c = "O" -> "o" [] c = "M" -> "m"
      [] OTHER -> c

\* str.lower()
Lower(s) == [i \in DOMAIN s |-> LowerChar(s[i])]

NormalizeNoStrip(flag) == Lower(flag)

\* .str.strip().str.lower()  (app.py:138, 170, 171)
Normalize(flag) == Lower(Strip(flag))

\* ... == "yes"
IsYes(flag) == Normalize(flag) = <<"y", "e", "s">>

-----------------------------------------------------------------------------
(* round() *)

RoundHalfUp(num, den) ==
    LET q == num \div den
        r == num % den
    IN  IF 2 * r < den THEN q ELSE q + 1

\* Python's round(num/den) for num >= 0, den > 0: nearest integer, a tie
\* goes to the even neighbour
Round(num, den) ==
    LET q == num \div den
        r == num % den
    IN  IF 2 * r < den THEN q
        ELSE IF 2 * r > den THEN q + 1
        ELSE IF q % 2 = 0 THEN q ELSE q + 1

-----------------------------------------------------------------------------
(* Selection resolver: update_dashboard, app.py:110-117 *)

DefaultCountry == "United States"

MapClickProp == <<"choropleth-map", "clickData">>
DropdownProp == <<"country-dropdown", "value">>

\* prop_id.startswith(prefix); a prop_id "id.property" is <<id, property>>
StartsWith(prop_id, prefix) == prop_id[1] = prefix

\* bool(click_data): None and {} are falsy, a dict with a "points" key is truthy
ClickTruthy(click_data) == click_data # None

\* bool(dropdown_value): None and "" are falsy
ValueTruthy(dropdown_value) == dropdown_value # None /\ dropdown_value[1] # ""

\* lines 112-117; click_data["points"][0] raises IndexError on an empty list
Resolve(trig, click_data, dropdown_value) ==
    IF trig # <<>> /\ StartsWith(trig[1].prop_id, "choropleth-map")
       /\ ClickTruthy(click_data)
    THEN IF click_data[1].points = <<>>
         THEN [raised |-> TRUE, country |-> DefaultCountry]
         ELSE [raised |-> FALSE, country |-> click_data[1].points[1].hovertext]
    ELSE IF ValueTruthy(dropdown_value)
    THEN [raised |-> FALSE, country |-> dropdown_value[1]]
    ELSE [raised |-> FALSE, country |-> DefaultCountry]

-----------------------------------------------------------------------------
(* Aggregation: update_dashboard, app.py:119-180 *)

Pct(num, den) == [num |-> num, den |-> den]

FilteredExpByDropdown(country) ==
    LET c == IF ValueTruthy(dropdown) THEN dropdown[1] ELSE DefaultCountry
        Keep(r) == r.country = c
    IN  SelectSeq(health_df, Keep)

\* line 120: health_df[health_df["country"] == country]
FilteredExp(country) ==
    LET Keep(r) == r.country = country
    IN  SelectSeq(health_df, Keep)

\* lines 121-127: px.line plots the rows in the order the frame holds them
LineFig(country) ==
    LET rows == FilteredExp(country)
    IN  [title |-> <<"Healthcare Expenditure Trend for ", country>>,
         data  |-> [i \in DOMAIN rows |-> <<rows[i].year, rows[i].health_exp>>]]

\* lines 136-139
OccData(country) ==
    LET Keep(r) == r.Country = country /\ IsYes(r.Mental_Health_History)
    IN  SelectSeq(occ_data_full, Keep)

\* the distinct values of a sequence, in order of first appearance
RECURSIVE Distinct(_)
Distinct(s) ==
    IF s = <<>> THEN <<>>
    ELSE LET init == Distinct(SubSeq(s, 1, Len(s) - 1))
             last == s[Len(s)]
         IN  IF last \in Range(init) THEN init ELSE Append(init, last)

\* insert e into a sequence sorted by count descending, after its equals
RECURSIVE InsertByCount(_, _)
InsertByCount(e, s) ==
    IF s = <<>> THEN <<e>>
    ELSE IF e.count > Head(s).count THEN <<e>> \o s
    ELSE <<Head(s)>> \o InsertByCount(e, Tail(s))

RECURSIVE SortByCount(_)
SortByCount(s) ==
    IF s = <<>> THEN <<>>
    ELSE InsertByCount(s[Len(s)], SortByCount(SubSeq(s, 1, Len(s) - 1)))

\* Series.value_counts(): one entry per value, most frequent first
ValueCounts(values) ==
    LET keys == Distinct(values)
        Count(v) == Cardinality({i \in DOMAIN values : values[i] = v})
    IN  SortByCount([i \in DOMAIN keys |-> [value |-> keys[i], count |-> Count(keys[i])]])

FallbackOccupations == <<"Housewife", "Student", "Business", "Corporate", "Others">>

OccCountsNoFallback(country) ==
    LET occ_data == OccData(country)
        counts == ValueCounts([i \in DOMAIN occ_data |-> occ_data[i].Occupation])
    IN  [i \in DOMAIN counts |->
            [Occupation |-> counts[i].value,
             Percentage |-> Pct(100 * counts[i].count, Len(occ_data))]]

\* lines 141-148: value_counts(normalize=True).mul(100), or the fixed five at 0
OccCounts(country) ==
    LET occ_data == OccData(country)
        counts == ValueCounts([i \in DOMAIN occ_data |-> occ_data[i].Occupation])
    IN  IF occ_data # <<>>
        THEN [i \in DOMAIN counts |->
                [Occupation |-> counts[i].value,
                 Percentage |-> Pct(100 * counts[i].count, Len(occ_data))]]
        ELSE [i \in DOMAIN FallbackOccupations |->
                [Occupation |-> FallbackOccupations[i], Percentage |-> Pct(0, 1)]]

\* lines 150-156
HistFig(country) ==
    [title |-> <<"Distribution of Occupations with Mental Health Disorder History in ",
                 country, " (2020)">>,
     data  |-> OccCounts(country)]

\* line 167
FilteredSurvey(country) ==
    LET Keep(r) == r.Country = country
    IN  SelectSeq(occ_data_full, Keep)

RatesNoFallback(country) ==
    LET filtered_survey == FilteredSurvey(country)
        n == IF filtered_survey = <<>> THEN 1 ELSE Len(filtered_survey)
        coping_yes == {i \in DOMAIN filtered_survey :
                          IsYes(filtered_survey[i].Coping_Struggles)}
        history_yes == {i \in DOMAIN filtered_survey :
                          IsYes(filtered_survey[i].Mental_Health_History)}
    IN  [coping_pct   |-> Pct(100 * Cardinality(coping_yes), n),
         history_pct  |-> Pct(100 * Cardinality(history_yes), n),
         coping_rate  |-> Round(100 * Cardinality(coping_yes), 10 * n),
         history_rate |-> Round(100 * Cardinality(history_yes), 10 * n)]

\* lines 169-180: mean() * 100 and round(pct / 10), or the fixed 5 / 50.0
Rates(country) ==
    LET filtered_survey == FilteredSurvey(country)
        n == Len(filtered_survey)
        coping_yes == {i \in DOMAIN filtered_survey :
                          IsYes(filtered_survey[i].Coping_Struggles)}
        history_yes == {i \in DOMAIN filtered_survey :
                          IsYes(filtered_survey[i].Mental_Health_History)}
    IN  IF filtered_survey # <<>>
        THEN [coping_pct   |-> Pct(100 * Cardinality(coping_yes), n),
              history_pct  |-> Pct(100 * Cardinality(history_yes), n),
              coping_rate  |-> Round(100 * Cardinality(coping_yes), 10 * n),
              history_rate |-> Round(100 * Cardinality(history_yes), 10 * n)]
        ELSE [coping_pct   |-> Pct(50, 1),
              history_pct  |-> Pct(50, 1),
              coping_rate  |-> 5,
              history_rate |-> 5]

\* render_image_pictograph, lines 55-66: ten icons, the first `count` filled
render_image_pictograph(count, filled_src, unfilled_src, label_text, percentage, country) ==
    [label_text |-> label_text,
     percentage |-> percentage,
     icons      |-> [i \in 1..10 |-> IF i - 1 < count THEN filled_src ELSE unfilled_src],
     key        |-> <<label_text, count>>]

\* lines 182-198
CopingPic(country) ==
    LET r == Rates(country)
    IN  render_image_pictograph(r.coping_rate, "/assets/red.png", "/assets/white.png",
            <<r.coping_rate, " out of 10 People in ", country,
              " Struggle with Coping as of 2020">>,
            r.coping_pct, country)

HistoryPic(country) ==
    LET r == Rates(country)
    IN  render_image_pictograph(r.history_rate, "/assets/red.png", "/assets/white.png",
            <<r.history_rate, " out of 10 People in ", country,
              " had a previous history of mental health disorders as of 2020">>,
            r.history_pct, country)

ReturnedDropdownStale(country, dropdown_value) ==
    IF dropdown_value # None THEN dropdown_value[1] ELSE country

\* line 200: the fifth element of the returned tuple, Output("country-dropdown", "value")
ReturnedDropdown(country, dropdown_value) == country

\* update_dashboard(click_data, dropdown_value), lines 110-200
update_dashboard(trig, click_data, dropdown_value) ==
    LET r == Resolve(trig, click_data, dropdown_value)
    IN  IF r.raised
        THEN [raised |-> TRUE, country |-> r.country]
        ELSE [raised      |-> FALSE,
              country     |-> r.country,
              line_fig    |-> LineFig(r.country),
              hist_fig    |-> HistFig(r.country),
              coping_pic  |-> CopingPic(r.country),
              history_pic |-> HistoryPic(r.country),
              dropdown    |-> ReturnedDropdown(r.country, dropdown_value)]

-----------------------------------------------------------------------------
(* Tables *)

SummaryRow(c) == [country |-> c]
ExpRow(c, y, e) == [country |-> c, year |-> y, health_exp |-> e]
SurveyRow(c, o, cs, h) ==
    [Country |-> c, Occupation |-> o, Coping_Struggles |-> Chars(cs),
     Mental_Health_History |-> Chars(h)]

\* all sequences over S of length at most n
SeqsUpTo(S, n) == UNION {[1..k -> S] : k \in 0..n}

\* line 14; only the country column is read by the callback's inputs
ExampleSummary == <<SummaryRow("France"), SummaryRow("India")>>

ExampleHealth ==
    <<ExpRow("India", 2015, 3), ExpRow("France", 2015, 11), ExpRow("India", 2016, 4)>>

ExampleSurvey ==
    <<SurveyRow("India", "Student", "Yes_", "Yes_"),
      SurveyRow("India", "Business", "No", "_YES"),
      SurveyRow("India", "Student", "Maybe", "No"),
      SurveyRow("France", "Corporate", "yes", "Maybe")>>

ExpRows ==
    {ExpRow("India", y, y - 2010) : y \in {2015, 2016, 2017}}
    \cup {ExpRow("France", 2015, 11)}

SurveyRows ==
    {SurveyRow("India", "Student", "Yes_", "Yes_"),
     SurveyRow("India", "Business", "No", "_YES"),
     SurveyRow("India", "Student", "yes", "Maybe"),
     SurveyRow("India", "Corporate", "ye_s", "yes!"),
     SurveyRow("France", "Student", "No", "yes")}

\* n respondents of one country: the first k cope badly ("Yes "), the other
\* n - k have a history (" YES")
Respondents(c, n, k) ==
    [i \in 1..n |->
        SurveyRow(c, IF i % 2 = 0 THEN "Student" ELSE "Business",
                  IF i <= k THEN "Yes_" ELSE "No",
                  IF i <= k THEN "Maybe" ELSE "_YES")]

-----------------------------------------------------------------------------
(* The page *)

\* line 69: the dropdown's options (their sorted order is not modelled)
country_options == {merged_df[i].country : i \in DOMAIN merged_df}

\* what a click on the map can deliver: the clicked point's hovertext is the
\* row's country (line 27); a request may also carry no point at all
ClickPayloads ==
    {[points |-> <<>>]}
    \cup {[points |-> <<[hovertext |-> h]>>] : h \in country_options \cup {""}}

\* lines 101-109 and 200: one call of the callback and what the page shows after
Callback(trig, click_data, dropdown_value) ==
    LET ret == update_dashboard(trig, click_data, dropdown_value)
    IN  /\ triggered' = trig
        /\ inputs' = [click_data |-> click_data, dropdown_value |-> dropdown_value]
        /\ result' = [raised |-> ret.raised, country |-> ret.country]
        /\ IF ret.raised
           THEN /\ outputs' = outputs
                /\ dropdown' = dropdown_value
                /\ rendered' = rendered
           ELSE LET shown == [line_fig    |-> ret.line_fig,
                              hist_fig    |-> ret.hist_fig,
                              coping_pic  |-> ret.coping_pic,
                              history_pic |-> ret.history_pic]
                IN  /\ outputs' = Some(shown)
                    /\ dropdown' = Some(ret.dropdown)
                    /\ rendered' = rendered \cup
                           {[country |-> ret.country, outputs |-> shown]}

\* lines 77-83 and 86-96: the layout before any callback has run
InitPage ==
    /\ pc = "loading"
    /\ clickData = None
    /\ dropdown = Some("United States")
    /\ triggered = <<>>
    /\ inputs = [click_data |-> None, dropdown_value |-> None]
    /\ result = [raised |-> FALSE, country |-> DefaultCountry]
    /\ outputs = None
    /\ rendered = {}

Init ==
    /\ merged_df = ExampleSummary
    /\ health_df \in {ExampleHealth, <<>>}
    /\ occ_data_full \in {ExampleSurvey, <<>>}
    /\ InitPage

InitExpenditure ==
    /\ merged_df = <<SummaryRow("India")>>
    /\ health_df \in SeqsUpTo(ExpRows, MaxExpRows)
    /\ occ_data_full = ExampleSurvey
    /\ InitPage

InitSurvey ==
    /\ merged_df = <<SummaryRow("India")>>
    /\ health_df = ExampleHealth
    /\ occ_data_full \in SeqsUpTo(SurveyRows, MaxSurveyRows)
    /\ InitPage

InitRates ==
    /\ merged_df = <<SummaryRow("India")>>
    /\ health_df = ExampleHealth
    /\ \E n \in 0..MaxRespondents : \E k \in 0..n :
          occ_data_full = Respondents("India", n, k)
    /\ InitPage

\* the page load: Dash calls the callback once with nothing triggered
InitialCall ==
    /\ pc = "loading"
    /\ pc' = "ready"
    /\ clickData' = clickData
    /\ Callback(<<>>, clickData, dropdown)
    /\ UNCHANGED tables

\* the user clicks the map
MapClick(payload) ==
    /\ pc = "ready"
    /\ clickData' = Some(payload)
    /\ Callback(<<[prop_id |-> MapClickProp]>>, Some(payload), dropdown)
    /\ UNCHANGED <<pc, tables>>

\* the user picks another option, or clears the dropdown
DropdownChange(v) ==
    /\ pc = "ready"
    /\ v # dropdown
    /\ Callback(<<[prop_id |-> DropdownProp]>>, clickData, v)
    /\ UNCHANGED <<pc, clickData, tables>>

\* the value the callback wrote to the dropdown comes back as its input
DropdownEcho ==
    /\ pc = "ready"
    /\ ~result.raised
    /\ Callback(<<[prop_id |-> DropdownProp]>>, clickData, dropdown)
    /\ UNCHANGED <<pc, clickData, tables>>

Next ==
    \/ InitialCall
    \/ \E payload \in ClickPayloads : MapClick(payload)
    \/ \E v \in {None} \cup {Some(c) : c \in country_options} : DropdownChange(v)
    \/ DropdownEcho

Spec == Init /\ [][Next]_vars
SpecExpenditure == InitExpenditure /\ [][Next]_vars
SpecSurvey == InitSurvey /\ [][Next]_vars
SpecRates == InitRates /\ [][Next]_vars

-----------------------------------------------------------------------------
(* What the claims speak of *)

\* the last call returned (it did not raise)
Returned == pc = "ready" /\ ~result.raised

ClickIsLatest == triggered # <<>> /\ triggered[1].prop_id = MapClickProp

\* the country name the click payload of the last call carries, "" if none
ClickName ==
    IF inputs.click_data # None /\ inputs.click_data[1].points # <<>>
    THEN inputs.click_data[1].points[1].hovertext
    ELSE ""

DropdownPresent ==
    inputs.dropdown_value # None /\ inputs.dropdown_value[1] # ""

\* the country the resolver's contract names for the last call
Expected ==
    IF ClickIsLatest /\ ClickName # "" THEN ClickName
    ELSE IF DropdownPresent THEN inputs.dropdown_value[1]
    ELSE "United States"

ClickOn(c) == Some([points |-> <<[hovertext |-> c]>>])

\* the flag texts that are "yes" up to surrounding whitespace and case
YesTexts == {Chars("Yes_"), Chars("_YES"), Chars("yes")}

SurveyOf(c) == {i \in DOMAIN occ_data_full : occ_data_full[i].Country = c}
CopingYesOf(c) == {i \in SurveyOf(c) : occ_data_full[i].Coping_Struggles \in YesTexts}
HistoryYesOf(c) == {i \in SurveyOf(c) : occ_data_full[i].Mental_Health_History \in YesTexts}
ExpOf(c) == {i \in DOMAIN health_df : health_df[i].country = c}

RECURSIVE SumNum(_)
SumNum(d) == IF d = <<>> THEN 0 ELSE Head(d).Percentage.num + SumNum(Tail(d))

FiveZeros ==
    <<[Occupation |-> "Housewife", Percentage |-> [num |-> 0, den |-> 1]],
      [Occupation |-> "Student",   Percentage |-> [num |-> 0, den |-> 1]],
      [Occupation |-> "Business",  Percentage |-> [num |-> 0, den |-> 1]],
      [Occupation |-> "Corporate", Percentage |-> [num |-> 0, den |-> 1]],
      [Occupation |-> "Others",    Percentage |-> [num |-> 0, den |-> 1]]>>

\* what the page shows
Shown == outputs[1]
Series == Shown.line_fig.data
Distribution == Shown.hist_fig.data
coping_rate == Shown.coping_pic.label_text[1]
history_rate == Shown.history_pic.label_text[1]
coping_pct == Shown.coping_pic.percentage
history_pct == Shown.history_pic.percentage

Filled(pic) == Cardinality({i \in DOMAIN pic.icons : pic.icons[i] = "/assets/red.png"})

-----------------------------------------------------------------------------
(* C1: every call resolves, without raising, the country the priority rule
   names: the clicked name when the click is the latest trigger and carries a
   non-empty name, else the dropdown value when one is present, else
   "United States". *)
C1_ResolvesByPriority ==
    pc = "ready" => (~result.raised /\ result.country = Expected)

(* C2: after every call that returned, the dropdown holds the resolved
   country, and the line chart, the histogram and both pictographs are the
   ones built for that country; whatever happened, the dropdown names the
   country of the four outputs on the page. *)
C2_DropdownInSync ==
    pc = "ready" =>
        /\ outputs # None
        /\ dropdown = Some(Shown.line_fig.title[2])
        /\ Shown.hist_fig.title[2] = Shown.line_fig.title[2]
        /\ Shown.coping_pic.label_text[3] = Shown.line_fig.title[2]
        /\ Shown.history_pic.label_text[3] = Shown.line_fig.title[2]
        /\ (~result.raised => dropdown = Some(result.country))

\* a click on India while the dropdown still held France
C2_Witness ==
    /\ Returned /\ ClickIsLatest
    /\ inputs.click_data = ClickOn("India")
    /\ inputs.dropdown_value = Some("France")
    /\ result.country = "India"
    /\ dropdown = Some("India")

(* C3: the resolver never raises and the country it hands to the aggregation
   is never the empty string. *)
C3_AlwaysAName ==
    pc = "ready" => (~result.raised /\ result.country # "")

(* C4: the series shown is the expenditure rows of the resolved country, as
   (year, expenditure) pairs in ascending order of year. *)
C4_SeriesAscending ==
    Returned =>
        /\ Len(Series) = Cardinality(ExpOf(result.country))
        /\ \A i \in ExpOf(result.country) :
              <<health_df[i].year, health_df[i].health_exp>> \in Range(Series)
        /\ \A i, j \in DOMAIN Series : i < j => Series[i][1] <= Series[j][1]

(* C5: with at least one history-yes row for the resolved country the
   distribution has one entry per occupation among those rows, at
   100 * (rows of the occupation) / (history-yes rows), summing to 100;
   with none it is the five fixed categories at 0. *)
C5_OccupationShares ==
    Returned =>
        LET yes == HistoryYesOf(result.country)
            d == Distribution
        IN  IF yes # {}
            THEN /\ {d[i].Occupation : i \in DOMAIN d}
                       = {occ_data_full[i].Occupation : i \in yes}
                 /\ \A i, j \in DOMAIN d : d[i].Occupation = d[j].Occupation => i = j
                 /\ \A i \in DOMAIN d :
                       /\ d[i].Percentage.den = Cardinality(yes)
                       /\ d[i].Percentage.num = 100 * Cardinality(
                              {r \in yes : occ_data_full[r].Occupation = d[i].Occupation})
                 /\ SumNum(d) = 100 * Cardinality(yes)
            ELSE d = FiveZeros

\* two occupations among three history-yes rows of India
C5_Witness ==
    /\ Returned /\ result.country = "India"
    /\ Cardinality(HistoryYesOf("India")) = 3
    /\ Len(Distribution) = 2
    /\ Distribution[1].Percentage = [num |-> 200, den |-> 3]

(* C6: a resolved country with no survey row gets rates 5 and 5, percentages
   50.0 and 50.0 and the five categories at 0; one with no expenditure row
   gets an empty series. *)
C6_Fallbacks ==
    Returned =>
        /\ (SurveyOf(result.country) = {}) =>
              /\ Distribution = FiveZeros
              /\ coping_rate = 5 /\ history_rate = 5
              /\ Filled(Shown.coping_pic) = 5 /\ Filled(Shown.history_pic) = 5
              /\ coping_pct = [num |-> 50, den |-> 1]
              /\ history_pct = [num |-> 50, den |-> 1]
        /\ (ExpOf(result.country) = {}) => (Series = <<>>)

\* "United States" resolved while the tables hold rows of other countries only
C6_Witness ==
    /\ Returned /\ result.country = "United States"
    /\ occ_data_full # <<>> /\ health_df # <<>>
    /\ SurveyOf("United States") = {} /\ ExpOf("United States") = {}
    /\ coping_rate = 5 /\ Series = <<>>

(* C7: with n > 0 survey rows for the resolved country, each percentage is
   100 * yes-rows / n, within [0, 100]; each rate is an integer in 0..10
   nearest to percentage / 10, and on a tie it is the even neighbour, for
   both rates alike. *)
C7_RatesRounded ==
    Returned =>
        LET n == Cardinality(SurveyOf(result.country))
            kc == Cardinality(CopingYesOf(result.country))
            kh == Cardinality(HistoryYesOf(result.country))
            Dist(rate, k) == IF rate * n >= 10 * k THEN rate * n - 10 * k
                             ELSE 10 * k - rate * n
            Nearest(rate, k) ==
                /\ rate \in 0..10
                /\ 2 * Dist(rate, k) <= n
                /\ 2 * Dist(rate, k) = n => rate % 2 = 0
        IN  n > 0 =>
              /\ coping_pct = [num |-> 100 * kc, den |-> n]
              /\ history_pct = [num |-> 100 * kh, den |-> n]
              /\ coping_pct.num >= 0 /\ coping_pct.num <= 100 * coping_pct.den
              /\ history_pct.num >= 0 /\ history_pct.num <= 100 * history_pct.den
              /\ Nearest(coping_rate, kc)
              /\ Nearest(history_rate, kh)
              /\ Filled(Shown.coping_pic) = coping_rate
              /\ Filled(Shown.history_pic) = history_rate

\* 9 of 20 cope badly: 45 percent, 4.5 rounds to 4
C7_Witness ==
    /\ Returned /\ result.country = "India"
    /\ Cardinality(SurveyOf("India")) = 20
    /\ coping_pct = [num |-> 900, den |-> 20]
    /\ coping_rate = 4
    /\ history_rate = 6

(* C8: a flag counts as yes exactly when its text is "yes" up to surrounding
   whitespace and case: the percentages count those rows and no others, and
   the occupation distribution is taken over those rows. *)
C8_FlagNormalized ==
    Returned =>
        LET c == result.country
        IN  /\ (SurveyOf(c) # {}) =>
                  /\ coping_pct.num = 100 * Cardinality(CopingYesOf(c))
                  /\ history_pct.num = 100 * Cardinality(HistoryYesOf(c))
            /\ (Distribution # FiveZeros) = (HistoryYesOf(c) # {})

\* one row, both flags "Yes "
C8_Witness ==
    /\ Returned /\ result.country = "India"
    /\ occ_data_full = <<SurveyRow("India", "Student", "Yes_", "Yes_")>>
    /\ coping_pct = [num |-> 100, den |-> 1]
    /\ history_pct = [num |-> 100, den |-> 1]
    /\ coping_rate = 10 /\ history_rate = 10

(* C9: no step changes a table, and every call that resolves a country some
   earlier call resolved shows the outputs that call showed. *)
C9_SameCountrySameOutputs ==
    [][/\ merged_df' = merged_df
       /\ health_df' = health_df
       /\ occ_data_full' = occ_data_full
       /\ \A e, f \in rendered' : e.country = f.country => e.outputs = f.outputs]_vars

\* India resolved by a click and again from the dropdown, France rendered too
C9_Witness ==
    /\ Returned /\ result.country = "India"
    /\ triggered # <<>> /\ triggered[1].prop_id = DropdownProp
    /\ inputs.click_data = ClickOn("India")
    /\ \E e \in rendered : e.country = "France"
    /\ \E e \in rendered : e.country = "India" /\ e.outputs = Shown
    /\ health_df # <<>> /\ occ_data_full # <<>>

(* C10: when the value the callback wrote to the dropdown comes back as a
   dropdown event, the click payload still in place, the callback resolves
   the same country and writes the same value. *)
C10_WriteBackFixedPoint ==
    [][(/\ Returned
        /\ triggered' # <<>> /\ triggered'[1].prop_id = DropdownProp
        /\ inputs'.dropdown_value = dropdown
        /\ inputs'.click_data = clickData)
       => (dropdown' = dropdown /\ result'.country = result.country)]_vars

====
